---------------------------- MODULE Spec2Model ----------------------------
(***************************************************************************)
(* Model of llama_delray.py: a directory walk, a parallel document load    *)
(* over a thread pool, the configuration and construction of a vector      *)
(* index, and an interactive query loop.                                   *)
(*                                                                         *)
(* A path is the sequence of its components below data_folder, so          *)
(* data_folder itself is <<>>.  A document is identified by the path of    *)
(* the file it was read from.  A query string is a sequence of characters. *)
(***************************************************************************)
EXTENDS Naturals, Sequences, FiniteSets, Bags

VARIABLES
    dirs,          \* filesystem: the directories below data_folder
    files,         \* filesystem: the regular files below data_folder
    pc,            \* position of the main thread
    exc,           \* the call whose exception ended the process, or "none"
    dir_paths,     \* load_documents_from_directory: dir_paths
    future,        \* the submitted futures, in submission order
    yielded,       \* indices of the futures as_completed has yielded, in order
    documents,     \* load_documents_from_directory: documents
    progress,      \* tqdm's counter n
    diag,          \* the "Error loading documents ..." lines printed
    executor,      \* the ThreadPoolExecutor: "none", "open" or "shutdown"
    readerCalls,   \* bag of the paths SimpleDirectoryReader was invoked on
    Settings,      \* llama_index Settings: embed_model and llm
    index,         \* main: index
    indexBuilds,   \* number of calls of VectorStoreIndex.from_documents
    query_engine,  \* main: query_engine
    engineBuilds,  \* number of calls of index.as_query_engine
    query,         \* main: query
    out            \* what the current loop iteration has done so far

vars == <<dirs, files, pc, exc, dir_paths, future, yielded, documents, progress,
          diag, executor, readerCalls, Settings, index, indexBuilds,
          query_engine, engineBuilds, query, out>>

fsVars == <<dirs, files>>
loadVars == <<dir_paths, future, yielded, documents, progress, diag, executor,
              readerCalls>>
setupVars == <<Settings, index, indexBuilds, query_engine, engineBuilds>>
loopVars == <<query, out>>

---------------------------------------------------------------------------
(* Bounds of the model *)

\* the number of directories below data_folder
MaxDirs == 2

\* the number of regular files below data_folder
MaxFiles == 2

\* the entry names, in the order a directory listing returns them
NameSeq == <<"a", "b">>

Names == {NameSeq[i] : i \in DOMAIN NameSeq}

\* the lines the user may type
Inputs ==
    { <<"e", "x", "i", "t">>, <<"E", "X", "I", "T">>, <<"E", "x", "i", "t">>,
      <<>>, <<" ", "e", "x", "i", "t">>, <<"e", "x", "i", "t", " ">>,
      <<"e", "x", "i", "t", "s">>, <<"H", "i">> }

---------------------------------------------------------------------------
(* Program constants *)

EmbedModelName == "BAAI/bge-base-en-v1.5"
model_name == "llama3"
request_timeout == 360
similarity_top_k == 5
ExitWord == <<"e", "x", "i", "t">>

---------------------------------------------------------------------------
(* Helpers *)

Range(s) == {s[i] : i \in DOMAIN s}

\* the multiset of the elements of a sequence
SeqToBag(s) == [x \in Range(s) |-> Cardinality({i \in DOMAIN s : s[i] = x})]

Parent(p) == SubSeq(p, 1, Len(p) - 1)

\* data_folder
Root == <<>>

\* os.path.join(root, name)
Join(root, name) == Append(root, name)

\* the names in directory top whose entry belongs to set S, in listing order
ListNames(top, S) == SelectSeq(NameSeq, LAMBDA n : Join(top, n) \in S)

\* mutant of WalkEach: the walk does not descend into subdirectories
WalkEachNone(top, names) == <<>>

\* os.walk(top): top-down, one (root, dirs, files) triple per directory
RECURSIVE os_walk(_)
RECURSIVE WalkEach(_, _)
os_walk(top) ==
    LET ds == ListNames(top, dirs)
    IN  <<[root |-> top, dirs |-> ds, files |-> ListNames(top, files)]>>
            \o WalkEach(top, ds)
WalkEach(top, names) ==
    IF names = <<>> THEN <<>>
    ELSE os_walk(Join(top, Head(names))) \o WalkEach(top, Tail(names))

\* for dir in dirs: directories.append(os.path.join(root, dir))
RECURSIVE AppendJoined(_, _)
AppendJoined(root, names) ==
    IF names = <<>> THEN <<>>
    ELSE <<Join(root, Head(names))>> \o AppendJoined(root, Tail(names))

\* for root, dirs, _ in os.walk(directory): ...
RECURSIVE WalkLoop(_)
WalkLoop(triples) ==
    IF triples = <<>> THEN <<>>
    ELSE AppendJoined(Head(triples).root, Head(triples).dirs)
            \o WalkLoop(Tail(triples))

\* mutant of get_all_directories: the walked directory itself is listed too
get_all_directories_with_root(directory) ==
    <<directory>> \o WalkLoop(os_walk(directory))

get_all_directories(directory) == WalkLoop(os_walk(directory))

\* SimpleDirectoryReader(directory).load_data() when it succeeds: one
\* document per file directly in the directory
load_documents_from_single_directory(directory) ==
    AppendJoined(directory, ListNames(directory, files))

\* str.lower() on one character
LowerChar(c) ==
    CASE c = "E" -> "e"
      [] c = "X" -> "x"
      [] c = "I" -> "i"
      [] c = "T" -> "t"
      [] c = "H" -> "h"
      [] OTHER -> c

\* str.lower()
Lower(s) == [i \in DOMAIN s |-> LowerChar(s[i])]

\* str.strip(), for the mutant below
RECURSIVE LStrip(_)
LStrip(s) == IF s # <<>> /\ Head(s) = " " THEN LStrip(Tail(s)) ELSE s

RECURSIVE RStrip(_)
RStrip(s) ==
    IF s # <<>> /\ s[Len(s)] = " " THEN RStrip(SubSeq(s, 1, Len(s) - 1)) ELSE s

\* mutant of IsExit: query.strip().lower() == 'exit'
IsExitStripped(q) == Lower(LStrip(RStrip(q))) = ExitWord

\* mutant of IsExit: query == 'exit'
IsExitCaseSensitive(q) == q = ExitWord

\* query.lower() == 'exit'
IsExit(q) == Lower(q) = ExitWord

Done(f) == f.state \in {"returned", "raised"}

\* as_completed has no future left to yield
AsCompletedExhausted == Len(yielded) = Len(future)

Event(e, a) == [ev |-> e, arg |-> a]

\* main before index and query_engine are assigned; Settings before main
\* assigns to it
NoIndex == [built |-> FALSE, documents |-> <<>>]
NoEngine == [built |-> FALSE, index |-> NoIndex, streaming |-> FALSE,
             similarity_top_k |-> 0]
NoSettings == [embed_model |-> "unset",
               llm |-> [model |-> "unset", request_timeout |-> 0]]

\* mutant of QueryCall: query_engine.query(query.lower())
QueryCallLowered(q) == Event("query", Lower(q))

\* query_engine.query(query): the call the Query Engine receives
QueryCall(q) == Event("query", q)

---------------------------------------------------------------------------
(* Initial state *)

Init ==
    /\ dirs = {}
    /\ files = {}
    /\ pc = "main"
    /\ exc = "none"
    /\ dir_paths = <<>>
    /\ future = <<>>
    /\ yielded = <<>>
    /\ documents = <<>>
    /\ progress = 0
    /\ diag = <<>>
    /\ executor = "none"
    /\ readerCalls = EmptyBag
    /\ Settings = NoSettings
    /\ index = NoIndex
    /\ indexBuilds = 0
    /\ query_engine = NoEngine
    /\ engineBuilds = 0
    /\ query = <<>>
    /\ out = <<>>

---------------------------------------------------------------------------
(* The filesystem the script is started on *)

CanCreate(parent, name) ==
    /\ pc = "main"
    /\ parent \in dirs \cup {Root}
    /\ Join(parent, name) \notin dirs \cup files

Mkdir ==
    \E parent \in dirs \cup {Root}, name \in Names :
        /\ CanCreate(parent, name)
        /\ Cardinality(dirs) < MaxDirs
        /\ dirs' = dirs \cup {Join(parent, name)}
        /\ UNCHANGED <<files, pc, exc, loadVars, setupVars, loopVars>>

Touch ==
    \E parent \in dirs \cup {Root}, name \in Names :
        /\ CanCreate(parent, name)
        /\ Cardinality(files) < MaxFiles
        /\ files' = files \cup {Join(parent, name)}
        /\ UNCHANGED <<dirs, pc, exc, loadVars, setupVars, loopVars>>

---------------------------------------------------------------------------
(* load_documents_from_directory *)

\* dir_paths = get_all_directories(directory); documents = []; the with
\* statement creates the executor
Enumerate ==
    /\ pc = "main"
    /\ dir_paths' = get_all_directories(Root)
    /\ documents' = <<>>
    /\ executor' = "open"
    /\ pc' = "submit"
    /\ UNCHANGED <<fsVars, exc, future, yielded, progress, diag, readerCalls,
                   setupVars, loopVars>>

\* one step of the dict comprehension: executor.submit(...) for the next path
Submit ==
    /\ pc = "submit"
    /\ Len(future) < Len(dir_paths)
    /\ future' = Append(future, [dir |-> dir_paths[Len(future) + 1],
                                 state |-> "pending", result |-> <<>>])
    /\ UNCHANGED <<fsVars, pc, exc, dir_paths, yielded, documents, progress,
                   diag, executor, readerCalls, setupVars, loopVars>>

\* the comprehension is finished: the for loop over as_completed starts
SubmitDone ==
    /\ pc = "submit"
    /\ Len(future) = Len(dir_paths)
    /\ pc' = "collect"
    /\ UNCHANGED <<fsVars, exc, loadVars, setupVars, loopVars>>

\* mutant of TaskReturn: the worker appends what it read to the shared list
\* itself
TaskReturnAppends(i) ==
    /\ future[i].state = "pending"
    /\ readerCalls' = readerCalls (+) SetToBag({future[i].dir})
    /\ future' = [future EXCEPT
                    ![i].state = "returned",
                    ![i].result = <<>>]
    /\ documents' =
            documents \o load_documents_from_single_directory(future[i].dir)
    /\ UNCHANGED <<fsVars, pc, exc, dir_paths, yielded, progress,
                   diag, executor, setupVars, loopVars>>

\* a worker thread runs load_documents_from_single_directory on the task's
\* directory and the reader returns its documents
TaskReturn(i) ==
    /\ future[i].state = "pending"
    /\ readerCalls' = readerCalls (+) SetToBag({future[i].dir})
    /\ future' = [future EXCEPT
                    ![i].state = "returned",
                    ![i].result = load_documents_from_single_directory(future[i].dir)]
    /\ UNCHANGED <<fsVars, pc, exc, dir_paths, yielded, documents, progress,
                   diag, executor, setupVars, loopVars>>

\* a worker thread runs the task and the reader raises
TaskRaise(i) ==
    /\ future[i].state = "pending"
    /\ readerCalls' = readerCalls (+) SetToBag({future[i].dir})
    /\ future' = [future EXCEPT ![i].state = "raised"]
    /\ UNCHANGED <<fsVars, pc, exc, dir_paths, yielded, documents, progress,
                   diag, executor, setupVars, loopVars>>

\* mutant of Extend: documents = future.result()
ExtendAssign(docs, f) == f.result

\* documents.extend(future.result())
Extend(docs, f) == docs \o f.result

\* mutant of Diagnostic: the line names the first submitted directory
DiagnosticFirst(i) == [dir |-> future[1].dir]

\* print(f"Error loading documents from directory {future_to_dir[future]}: {e}")
Diagnostic(i) == [dir |-> future[i].dir]

\* mutant of Collect: the counter advances for successful tasks only
CollectCountSuccess(i) ==
    /\ pc = "collect"
    /\ i \notin Range(yielded)
    /\ Done(future[i])
    /\ yielded' = Append(yielded, i)
    /\ IF future[i].state = "returned"
       THEN /\ documents' = Extend(documents, future[i])
            /\ diag' = diag
            /\ progress' = progress + 1
       ELSE /\ diag' = Append(diag, Diagnostic(i))
            /\ documents' = documents
            /\ progress' = progress
    /\ UNCHANGED <<fsVars, pc, exc, dir_paths, future, executor, readerCalls,
                   setupVars, loopVars>>

\* mutant of Collect: the error of a raised future is not caught
CollectReraise(i) ==
    /\ pc = "collect"
    /\ i \notin Range(yielded)
    /\ Done(future[i])
    /\ yielded' = Append(yielded, i)
    /\ diag' = diag
    /\ IF future[i].state = "returned"
       THEN /\ documents' = Extend(documents, future[i])
            /\ progress' = progress + 1
            /\ UNCHANGED <<pc, exc>>
       ELSE /\ documents' = documents
            /\ progress' = progress
            /\ pc' = "raised"
            /\ exc' = "reader"
    /\ UNCHANGED <<fsVars, dir_paths, future, executor, readerCalls,
                   setupVars, loopVars>>

\* one iteration of the for loop: as_completed yields a finished future, the
\* body runs, tqdm counts the item
Collect(i) ==
    /\ pc = "collect"
    /\ i \notin Range(yielded)
    /\ Done(future[i])
    /\ yielded' = Append(yielded, i)
    /\ IF future[i].state = "returned"
       THEN /\ documents' = Extend(documents, future[i])
            /\ diag' = diag
       ELSE /\ diag' = Append(diag, Diagnostic(i))
            /\ documents' = documents
    /\ progress' = progress + 1
    /\ UNCHANGED <<fsVars, pc, exc, dir_paths, future, executor, readerCalls,
                   setupVars, loopVars>>

\* mutant of LoaderReturn: the wait for completions times out once no
\* finished future is left to yield, and the unfinished ones are abandoned
LoaderReturnTimeout ==
    /\ pc = "collect"
    /\ \A i \in DOMAIN future : Done(future[i]) => i \in Range(yielded)
    /\ executor' = "shutdown"
    /\ pc' = "embed"
    /\ UNCHANGED <<fsVars, exc, dir_paths, future, yielded, documents, progress,
                   diag, readerCalls, setupVars, loopVars>>

\* mutant of LoaderReturn: the function returns without waiting for the
\* submitted tasks (no as_completed loop to the end, shutdown(wait=False))
LoaderReturnNoWait ==
    /\ pc = "collect"
    /\ executor' = "shutdown"
    /\ pc' = "embed"
    /\ UNCHANGED <<fsVars, exc, dir_paths, future, yielded, documents, progress,
                   diag, readerCalls, setupVars, loopVars>>

\* the for loop ends, the with statement shuts the executor down (wait=True)
\* and the function returns documents
LoaderReturn ==
    /\ pc = "collect"
    /\ AsCompletedExhausted
    /\ \A i \in DOMAIN future : Done(future[i])
    /\ executor' = "shutdown"
    /\ pc' = "embed"
    /\ UNCHANGED <<fsVars, exc, dir_paths, future, yielded, documents, progress,
                   diag, readerCalls, setupVars, loopVars>>

---------------------------------------------------------------------------
(* main *)

Raise(call) ==
    /\ pc' = "raised"
    /\ exc' = call

\* Settings.embed_model = HuggingFaceEmbedding(model_name="BAAI/bge-base-en-v1.5")
SetEmbedModel ==
    /\ pc = "embed"
    /\ \/ /\ Settings' = [Settings EXCEPT !.embed_model = EmbedModelName]
          /\ pc' = "llm"
          /\ exc' = exc
       \/ /\ Raise("embed")
          /\ Settings' = Settings
    /\ UNCHANGED <<fsVars, loadVars, index, indexBuilds, query_engine,
                   engineBuilds, loopVars>>

\* Settings.llm = Ollama(model=model_name, request_timeout=360.0)
SetLlm ==
    /\ pc = "llm"
    /\ \/ /\ Settings' = [Settings EXCEPT
                            !.llm = [model |-> model_name,
                                     request_timeout |-> request_timeout]]
          /\ pc' = "index"
          /\ exc' = exc
       \/ /\ Raise("llm")
          /\ Settings' = Settings
    /\ UNCHANGED <<fsVars, loadVars, index, indexBuilds, query_engine,
                   engineBuilds, loopVars>>

\* mutant of BuildIndex: a failure of the construction is caught and main
\* goes on
BuildIndexCaught ==
    /\ pc = "index"
    /\ indexBuilds' = indexBuilds + 1
    /\ \/ /\ index' = [built |-> TRUE, documents |-> documents]
          /\ pc' = "engine"
          /\ exc' = exc
       \/ /\ index' = index
          /\ pc' = "engine"
          /\ exc' = "index"
    /\ UNCHANGED <<fsVars, loadVars, Settings, query_engine, engineBuilds,
                   loopVars>>

\* index = VectorStoreIndex.from_documents(documents)
BuildIndex ==
    /\ pc = "index"
    /\ indexBuilds' = indexBuilds + 1
    /\ \/ /\ index' = [built |-> TRUE, documents |-> documents]
          /\ pc' = "engine"
          /\ exc' = exc
       \/ /\ Raise("index")
          /\ index' = index
    /\ UNCHANGED <<fsVars, loadVars, Settings, query_engine, engineBuilds,
                   loopVars>>

\* query_engine = index.as_query_engine(streaming=True, similarity_top_k=5)
CreateQueryEngine ==
    /\ pc = "engine"
    /\ engineBuilds' = engineBuilds + 1
    /\ \/ /\ query_engine' = [built |-> TRUE, index |-> index, streaming |-> TRUE,
                              similarity_top_k |-> similarity_top_k]
          /\ pc' = "prompt"
          /\ exc' = exc
       \/ /\ Raise("engine")
          /\ query_engine' = query_engine
    /\ UNCHANGED <<fsVars, loadVars, Settings, index, indexBuilds, loopVars>>

\* where the loop goes after reading q: break, or on to the query
AfterInput(q) == IF IsExit(q) THEN "terminated" ELSE "query"

\* query = input("Enter your query ..."); if query.lower() == 'exit': break
ReadInput ==
    /\ pc = "prompt"
    /\ \E q \in Inputs :
        /\ query' = q
        /\ out' = <<Event("prompt", <<>>)>>
        /\ pc' = AfterInput(q)
    /\ UNCHANGED <<fsVars, exc, loadVars, setupVars>>

\* input() meets the end of standard input: EOFError
ReadEOF ==
    /\ pc = "prompt"
    /\ out' = <<Event("prompt", <<>>)>>
    /\ Raise("input")
    /\ UNCHANGED <<fsVars, loadVars, setupVars, query>>

\* mutant of Query: the failure of a query is caught and the loop goes on
QueryCaught ==
    /\ pc = "query"
    /\ \/ /\ out' = Append(out, QueryCall(query))
          /\ pc' = "stream"
          /\ exc' = exc
       \/ /\ out' = Append(out, QueryCall(query))
          /\ pc' = "prompt"
          /\ exc' = "query"
    /\ UNCHANGED <<fsVars, loadVars, setupVars, query>>

\* streaming_response = query_engine.query(query)
Query ==
    /\ pc = "query"
    /\ \/ /\ out' = Append(out, QueryCall(query))
          /\ pc' = "stream"
          /\ exc' = exc
       \/ /\ out' = Append(out, QueryCall(query))
          /\ Raise("query")
    /\ UNCHANGED <<fsVars, loadVars, setupVars, query>>

\* streaming_response.print_response_stream()
Stream ==
    /\ pc = "stream"
    /\ \/ /\ out' = Append(out, Event("stream", <<>>))
          /\ pc' = "blank"
          /\ exc' = exc
       \/ /\ out' = out
          /\ Raise("stream")
    /\ UNCHANGED <<fsVars, loadVars, setupVars, query>>

\* mutant of Blank: a new query engine is derived after every answer
BlankNewEngine ==
    /\ pc = "blank"
    /\ out' = Append(out, Event("blank", <<>>))
    /\ pc' = "engine"
    /\ UNCHANGED <<fsVars, exc, loadVars, setupVars, query>>

\* mutant of Blank: the index is built again after every answer
BlankRebuild ==
    /\ pc = "blank"
    /\ out' = Append(out, Event("blank", <<>>))
    /\ pc' = "index"
    /\ UNCHANGED <<fsVars, exc, loadVars, setupVars, query>>

\* print()
Blank ==
    /\ pc = "blank"
    /\ out' = Append(out, Event("blank", <<>>))
    /\ pc' = "prompt"
    /\ UNCHANGED <<fsVars, exc, loadVars, setupVars, query>>

---------------------------------------------------------------------------

Next ==
    \/ Mkdir
    \/ Touch
    \/ Enumerate
    \/ Submit
    \/ SubmitDone
    \/ \E i \in DOMAIN future : TaskReturn(i)
    \/ \E i \in DOMAIN future : TaskRaise(i)
    \/ \E i \in DOMAIN future : Collect(i)
    \/ LoaderReturn
    \/ SetEmbedModel
    \/ SetLlm
    \/ BuildIndex
    \/ CreateQueryEngine
    \/ ReadInput
    \/ ReadEOF
    \/ Query
    \/ Stream
    \/ Blank

\* the steps of the main thread up to the first prompt
MainStep ==
    \/ Enumerate
    \/ Submit
    \/ SubmitDone
    \/ \E i \in DOMAIN future : Collect(i)
    \/ LoaderReturn
    \/ SetEmbedModel
    \/ SetLlm
    \/ BuildIndex
    \/ CreateQueryEngine

\* the main thread runs whenever it is not blocked
FairSpec == Init /\ [][Next]_vars /\ WF_vars(MainStep)

Spec == Init /\ [][Next]_vars

---------------------------------------------------------------------------
(* Vocabulary of the properties *)

\* load_documents_from_directory has returned
Loaded == pc \notin {"main", "submit", "collect"}

\* the futures whose reader call raised
Failed == {i \in DOMAIN future : future[i].state = "raised"}

\* the reader results of the enumerated directories 1..n, those in F left
\* out, concatenated in enumeration order
RECURSIVE ReaderResults(_, _)
ReaderResults(n, F) ==
    IF n = 0 THEN <<>>
    ELSE ReaderResults(n - 1, F)
            \o (IF n \in F THEN <<>>
                ELSE load_documents_from_single_directory(dir_paths[n]))

\* the diagnostic lines that name directory d
LinesNaming(d) == {k \in DOMAIN diag : diag[k].dir = d}

\* the main thread is past the load phase and has not failed before the loop
InLoop ==
    \/ pc \in {"prompt", "query", "stream", "blank", "terminated"}
    \/ pc = "raised" /\ exc \in {"input", "query", "stream"}

QueriesIn(o) == {k \in DOMAIN o : o[k].ev = "query"}

---------------------------------------------------------------------------
(* Properties *)

\* C1: when every reader call succeeded, the collection the loader returns
\* is, as a multiset, the union of the per-directory reader results, whatever
\* the order in which the tasks completed.
C1_AggregateIsUnion ==
    (Loaded /\ Failed = {})
        => SeqToBag(documents) = SeqToBag(ReaderResults(Len(dir_paths), {}))

\* C1 witness: two directories with one document each were loaded, the
\* second one completing first.
C1_Witness ==
    /\ Loaded
    /\ Failed = {}
    /\ yielded = <<2, 1>>
    /\ Len(documents) = 2
    /\ Parent(documents[1]) = dir_paths[2]
    /\ Parent(documents[2]) = dir_paths[1]

\* C2: for every set F of failing directories the returned collection is the
\* multiset union of the results of the directories outside F, exactly |F|
\* diagnostics are printed, one naming each directory of F, and the loader
\* can still return once every future has been yielded.
C2_PartialFailure ==
    /\ Loaded =>
        /\ SeqToBag(documents) = SeqToBag(ReaderResults(Len(dir_paths), Failed))
        /\ Len(diag) = Cardinality(Failed)
        /\ \A i \in Failed : Cardinality(LinesNaming(dir_paths[i])) = 1
        /\ \A k \in DOMAIN diag : \E i \in Failed : diag[k].dir = dir_paths[i]
    /\ (pc = "collect" /\ AsCompletedExhausted) => ENABLED LoaderReturn
    /\ (pc = "raised" => executor = "shutdown" /\ AsCompletedExhausted)

\* C2 witness: of two directories the second one's read raised and the other
\* one's document was kept; the run has come to index construction.
C2_Witness ==
    /\ pc = "index"
    /\ Len(future) = 2
    /\ Failed = {2}
    /\ Len(documents) = 1
    /\ Parent(documents[1]) = dir_paths[1]
    /\ diag = <<[dir |-> dir_paths[2]]>>

\* C3: the index is built at most once, only after the loader has returned
\* with every task completed and collected, and before any query; during
\* the loop it exists, holds the loaded collection and is never replaced.
C3_IndexOnce ==
    /\ [](/\ indexBuilds <= 1
          /\ (indexBuilds = 1 =>
                /\ Loaded
                /\ AsCompletedExhausted
                /\ \A i \in DOMAIN future : Done(future[i]))
          /\ (InLoop =>
                /\ indexBuilds = 1
                /\ index.built
                /\ index.documents = documents)
          /\ (QueriesIn(out) # {} => index.built))
    /\ [][index.built => index' = index /\ indexBuilds' = indexBuilds]_vars

\* C3 witness: a query is being answered over an index built from a
\* loaded document.
C3_Witness ==
    /\ pc = "stream"
    /\ indexBuilds = 1
    /\ Len(index.documents) = 1
    /\ QueriesIn(out) # {}

\* C4: while the configuration, the index construction, the engine creation
\* or the loop runs, every submitted task has finished, every enumerated
\* directory was submitted and the executor is shut down.
C4_PhasesDoNotOverlap ==
    /\ Loaded =>
        /\ executor = "shutdown"
        /\ Len(future) = Len(dir_paths)
        /\ \A i \in DOMAIN future : Done(future[i])
    /\ (\E i \in DOMAIN future : ~Done(future[i])) => executor = "open"

\* C4 witness: the LLM is being configured after two tasks have finished.
C4_Witness ==
    /\ pc = "llm"
    /\ Len(future) = 2
    /\ executor = "shutdown"

\* the spellings of "exit" in every letter casing
ExitCasings ==
    {<<c1, c2, c3, c4>> : c1 \in {"e", "E"}, c2 \in {"x", "X"},
                          c3 \in {"i", "I"}, c4 \in {"t", "T"}}

PromptEvent == Event("prompt", <<>>)
StreamEvent == Event("stream", <<>>)
BlankEvent == Event("blank", <<>>)

\* C5: an input that spells "exit" in any casing takes the loop from the
\* prompt to TERMINATED with no query issued for it, and nothing happens
\* after TERMINATED.
C5_ExitTerminates ==
    /\ [][(pc = "prompt" /\ pc' # "raised" /\ query' \in ExitCasings)
            => (pc' = "terminated" /\ QueriesIn(out') = {})]_vars
    /\ [](pc = "terminated" => (query \in ExitCasings /\ out = <<PromptEvent>>))
    /\ [](pc \in {"query", "stream", "blank"} => query \notin ExitCasings)
    /\ [][pc = "terminated" => (vars' = vars)]_vars

\* C5 witness: the loop has terminated on the input EXIT.
C5_Witness ==
    /\ pc = "terminated"
    /\ query = <<"E", "X", "I", "T">>
    /\ out = <<PromptEvent>>

\* C6: for a non-empty input that is not "exit" in any casing, the iteration
\* is, in this order, the prompt, one query call with exactly that string,
\* the streamed response and one blank line, and only then the next prompt.
C6_OneQueryPerInput ==
    /\ [][(pc = "prompt" /\ pc' # "raised" /\ query' # <<>>
                /\ query' \notin ExitCasings)
            => (pc' = "query" /\ out' = <<PromptEvent>>)]_vars
    /\ []((query # <<>> /\ query \notin ExitCasings) =>
            /\ (pc = "query" => out = <<PromptEvent>>)
            /\ (pc = "stream" => out = <<PromptEvent, Event("query", query)>>)
            /\ (pc = "blank" =>
                    out = <<PromptEvent, Event("query", query), StreamEvent>>)
            /\ (pc = "prompt" =>
                    out = <<PromptEvent, Event("query", query), StreamEvent,
                            BlankEvent>>))
    /\ [](Cardinality(QueriesIn(out)) <= 1)

\* C6 witness: the input "Hi" was answered and the next prompt is due.
C6_Witness ==
    /\ pc = "prompt"
    /\ query = <<"H", "i">>
    /\ out = <<PromptEvent, Event("query", <<"H", "i">>), StreamEvent,
               BlankEvent>>

\* C7: the progress counter advances once per yielded future, succeeded or
\* raised, never exceeds the number N of enumerated directories, and is N
\* when the loader has returned.
C7_ProgressReachesN ==
    /\ progress = Len(yielded)
    /\ progress = Cardinality(Range(yielded))
    /\ progress <= Len(dir_paths)
    /\ (Loaded => progress = Len(dir_paths))

\* C7 witness: the loader has returned with the counter at 2, one task
\* having succeeded and one having raised.
C7_Witness ==
    /\ Loaded
    /\ progress = 2
    /\ Cardinality(Failed) = 1
    /\ Len(dir_paths) = 2

\* the directories reached from data_folder through directories only
Descendants ==
    {p \in dirs \cup files :
        \A k \in 1..Len(p) : SubSeq(p, 1, k) \in dirs}

\* C8: get_all_directories(root) lists exactly the directories reachable by
\* descent from the root at any depth, the root excluded, each once, and no
\* file.
C8_EnumeratorExact ==
    pc # "main" =>
        /\ Range(dir_paths) = Descendants
        /\ Len(dir_paths) = Cardinality(Range(dir_paths))
        /\ Root \notin Range(dir_paths)
        /\ Range(dir_paths) \cap files = {}

\* C8 witness: a tree with a nested directory and files, of which the two
\* directories were listed.
C8_Witness ==
    /\ pc = "submit"
    /\ <<"a", "b">> \in dirs
    /\ <<"a", "a">> \in files
    /\ <<"b">> \in files
    /\ Len(dir_paths) = 2

C10_QueryFailureFatal ==
    /\ [](exc \in {"query", "stream"} => pc = "raised")
    /\ [][(exc \in {"query", "stream"}) => (vars' = vars)]_vars
    /\ [][(pc \in {"query", "stream"} /\ exc' # exc)
            => (pc' = "raised" /\ exc' = pc)]_vars

\* C10 witness: the query call for "Hi" raised and the process has ended.
C10_Witness ==
    /\ pc = "raised"
    /\ exc = "query"
    /\ query = <<"H", "i">>

\* C11: when the construction of the index raises, the process ends there:
\* the loader had returned, but no query engine is created, no prompt is
\* shown and no query is issued, then or later.
C11_IndexFailureFatal ==
    /\ [](exc = "index" =>
            /\ pc = "raised"
            /\ Loaded /\ executor = "shutdown" /\ AsCompletedExhausted
            /\ ~index.built
            /\ ~query_engine.built /\ engineBuilds = 0
            /\ out = <<>>)
    /\ [][(exc = "index") => (vars' = vars)]_vars
    /\ [][(pc = "index" /\ exc' # exc) => (pc' = "raised" /\ exc' = "index")]_vars

\* C11 witness: the index construction raised after a document was loaded.
C11_Witness ==
    /\ pc = "raised"
    /\ exc = "index"
    /\ Len(documents) = 1
    /\ indexBuilds = 1

\* the submitted futures whose reader task has not completed
Unfinished == {i \in DOMAIN future : ~Done(future[i])}

\* C12: as long as a reader task has not completed the loader cannot
\* return, whatever the other tasks have done: the main thread is still
\* submitting or collecting, nothing is configured or built and no prompt
\* was shown; and a task ends only by its own reader call returning or
\* raising, never by a cancellation or a timeout.
C12_StuckTaskBlocksLoader ==
    /\ [](Unfinished # {} =>
            /\ pc \in {"submit", "collect"}
            /\ ~ENABLED LoaderReturn
            /\ executor = "open"
            /\ Settings = NoSettings
            /\ indexBuilds = 0 /\ engineBuilds = 0
            /\ out = <<>>)
    /\ [][\A i \in Unfinished :
            \/ future'[i] = future[i]
            \/ /\ Done(future'[i])
               /\ readerCalls' = readerCalls (+) SetToBag({future[i].dir})
               /\ UNCHANGED <<pc, exc, yielded, documents, progress, diag,
                              executor>>]_vars

\* C12 witness: of two tasks one has completed and was collected, the other
\* has not completed, and the loader is still waiting.
C12_Witness ==
    /\ pc = "collect"
    /\ Len(future) = 2
    /\ Unfinished = {1}
    /\ yielded = <<2>>
    /\ progress = 1

C14_ReachesPrompt ==
    ([]<>(Unfinished = {}) /\ [](exc \notin {"embed", "llm", "index", "engine"}))
        => <>(pc = "prompt")

\* C14 witness: the first prompt is due after two tasks completed in
\* reverse order, the first of them by raising.
C14_Witness ==
    /\ pc = "prompt"
    /\ out = <<>>
    /\ yielded = <<2, 1>>
    /\ Failed = {1}

\* C15: the loop ends by break exactly when the input is "exit" in some
\* letter casing; every other input, the empty string and "exit" with
\* surrounding blanks included, is passed unchanged to the Query Engine in
\* one query call, and after the answer and the blank line the loop is at
\* the prompt again.
C15_ExitIffLowerIsExit ==
    /\ [][(pc = "prompt" /\ pc' # "raised") =>
            IF query' \in ExitCasings
            THEN pc' = "terminated"
            ELSE pc' = "query" /\ out' = <<PromptEvent>>]_vars
    /\ [][pc' = "terminated" =>
            (pc \in {"prompt", "terminated"} /\ query' \in ExitCasings)]_vars
    /\ [](pc = "stream" => out = <<PromptEvent, Event("query", query)>>)
    /\ [](pc = "blank" =>
            out = <<PromptEvent, Event("query", query), StreamEvent>>)
    /\ [][pc = "blank" => pc' \in {"blank", "prompt"}]_vars
    /\ []((pc = "prompt" /\ out # <<>>) =>
            out = <<PromptEvent, Event("query", query), StreamEvent,
                    BlankEvent>>)

\* C15 witness: the input " exit" was sent to the Query Engine as it is and
\* the loop is at the prompt again.
C15_Witness ==
    /\ pc = "prompt"
    /\ query = <<" ", "e", "x", "i", "t">>
    /\ out = <<PromptEvent, Event("query", <<" ", "e", "x", "i", "t">>),
               StreamEvent, BlankEvent>>

\* C16: as_query_engine is called at most once, before the first prompt;
\* throughout the loop the engine is the one derived from the index, with
\* streaming on and top-k 5, and no step of the loop replaces the engine,
\* the index or the Settings, or changes anything but the current input and
\* what the current iteration has printed and called.
C16_EngineOnce ==
    /\ [](/\ engineBuilds <= 1
          /\ (engineBuilds = 1 => indexBuilds = 1 /\ index.built)
          /\ (InLoop =>
                /\ engineBuilds = 1
                /\ query_engine = [built |-> TRUE, index |-> index,
                                   streaming |-> TRUE, similarity_top_k |-> 5]
                /\ Settings.embed_model = EmbedModelName
                /\ Settings.llm.model = model_name)
          /\ (out # <<>> => query_engine.built))
    /\ [][query_engine.built => query_engine' = query_engine]_vars
    /\ [][InLoop => UNCHANGED <<fsVars, loadVars, setupVars>>]_vars
    /\ [][(pc = "prompt" /\ pc' # pc) => out' = <<PromptEvent>>]_vars

\* C16 witness: an answer has been streamed by the engine derived from the
\* index of a loaded document.
C16_Witness ==
    /\ pc = "blank"
    /\ engineBuilds = 1
    /\ query_engine.built
    /\ Len(query_engine.index.documents) = 1
    /\ query = <<>>

===========================================================================
